---- MODULE Spec2Model ----
(***************************************************************************)
(* Model of the aoe2-match-history sync engine: the match store            *)
(* (load_cached_matches / save_matches), the paginated fetch               *)
(* (fetch_new_matches), refresh_matches, and the web handlers of app.py    *)
(* and webui.py that start a refresh or a backfill for one player.         *)
(* Further specifications cover the functions the pages are built from:    *)
(* group_sessions, session_metrics, nth_game_winrates, win_rate,           *)
(* bucket_label, determine_win and user_outcome, and the identity lookup   *)
(* get_relic_id with its mapping file.                                     *)
(*                                                                         *)
(* aoe2_match_history.py as it is under src/ defines neither               *)
(* is_file_locked, status_path_for, load_status nor backfill_history,      *)
(* which app.py calls.  Those four are modelled from the specification     *)
(* (sections 4.3 and 5) and are marked as such where they are defined.     *)
(***************************************************************************)
EXTENDS Integers, Sequences, FiniteSets, TLC

(* ------------------------------ bounds -------------------------------- *)

\* Records the remote history can hold.
MaxRemote == 3
\* Records per page (get_native_matches is called with count=100).
PageSize == 2
\* Page budget of one fetch_new_matches call (max_pages; 10 by default).
MaxPages == 2
\* Pages of one backfill batch, and batches one backfill call may run.
BatchPages == 1
MaxBatches == 2
\* Cap on SyncStatus.last_page_fetched, which backfill only ever increases.
MaxPageIndex == 3
\* Records the remote history can hold when two workers run (SpecConc).
ConcRemote == 1
\* Length of the list handed to save_matches in SpecSave.
MaxLen == 3
\* Wall-clock ticks one request may take, and the ticks after which a sync
\* call is to stop fetching.
MaxLatency == 2
FetchTimeout == 2

\* Length of the list handed to group_sessions in SpecSessions.
MaxEntries == 4

\* Members of the raw match handed to parse_native_match in SpecWin.
MaxMembers == 3

\* Largest number of seconds handed to bucket_label in SpecBuckets.
MaxSeconds == 2500

\* Sessions handed to session_metrics in SpecMetrics, games of a session,
\* and ranked matches that go into the duration breakdown.
MaxSessions == 3
MaxGames == 3
MaxRanked == 2

\* Site ids looked up in SpecId, and native ids a profile page can show.
MaxSiteId == 2
MaxNativeId == 3

(* --------------------------- values ----------------------------------- *)

\* Python's None (also a missing key, the empty string and 0: all falsy).
Absent == -1
\* str(None), the text "None": what str(raw_match.get("id")) yields for a
\* record without an id.  Real ids are 1, 2, ...
NoneStr == 0
\* datetime.min, below every real timestamp.
DatetimeMin == -1
\* strftime("%Y-%m-%d %H:%M") keeps whole minutes.
SecondsPerMinute == 60

\* SESSION_IDLE_MINUTES, the default of idle_minutes.
SessionIdleMinutes == 20

Procs == {1, 2}
Free == 0

\* startgametime values of the records the source serves: missing, or a
\* second of minute 1.
RawStartTimes == {0, 65}

Truthy(v) == v # Absent

(* ---------------------- normalisation -------------------------------- *)

\* str(x) of an id.
Str(id) == IF id = Absent THEN NoneStr ELSE id

\* format_dt(dt.datetime.fromtimestamp(ts)) if ts else None, in minutes.
FormatTs(ts) == IF ts = 0 \/ ts = Absent THEN Absent ELSE ts \div SecondsPerMinute

\* A stored match: game_id, start_datetime and end_datetime (minutes, or
\* Absent), and has_won: whether its player objects carry the "won" key.
ParseNativeMatch(raw) ==
    [game_id        |-> Str(raw.id),
     start_datetime |-> FormatTs(raw.startgametime),
     end_datetime   |-> FormatTs(raw.completiontime),
     has_won        |-> TRUE]

\* normalize_match rebuilds every player from a fixed list of keys, which
\* does not include "won"; a falsy game_id becomes None.  A stored minute
\* string parses and formats back to itself.  parse_native_match sets a
\* duration only when the start time is present, so the start-time
\* inference of lines 361-365 never applies to a record it produced.
NormalizeMatch(m) ==
    [game_id        |-> IF Truthy(m.game_id) THEN m.game_id ELSE Absent,
     start_datetime |-> m.start_datetime,
     end_datetime   |-> m.end_datetime,
     has_won        |-> FALSE]

(* ---------------------------- match store ----------------------------- *)

RECURSIVE MapNormalize(_)
MapNormalize(items) ==
    IF items = <<>> THEN <<>>
    ELSE <<NormalizeMatch(Head(items))>> \o MapNormalize(Tail(items))

HasGameId(m) == Truthy(m.game_id)

\* The file is missing, or holds the items written so far; complete is
\* FALSE from open("w") until the dump has written everything.  A file that
\* is not complete does not decode: load returns [].
LoadCachedMatches(f) ==
    IF ~f.exists \/ ~f.complete THEN <<>>
    ELSE SelectSeq(MapNormalize(f.items), HasGameId)

MatchSortKey(m) ==
    IF m.start_datetime # Absent THEN m.start_datetime
    ELSE IF m.end_datetime # Absent THEN m.end_datetime
    ELSE DatetimeMin

\* A dict assignment that leaves the value of a key already present alone.
DictSetKeepsFirst(d, m) ==
    IF \E i \in 1..Len(d) : d[i].game_id = m.game_id THEN d ELSE Append(d, m)

\* d[m["game_id"]] = m on an insertion-ordered dict, kept as the sequence of
\* its values: a key already present keeps its place and takes the new value.
DictSet(d, m) ==
    IF \E i \in 1..Len(d) : d[i].game_id = m.game_id
    THEN [i \in 1..Len(d) |-> IF d[i].game_id = m.game_id THEN m ELSE d[i]]
    ELSE Append(d, m)

\* save_matches, lines 402-407.
RECURSIVE UniqueMatches(_, _)
UniqueMatches(matches, d) ==
    IF matches = <<>> THEN d
    ELSE UniqueMatches(Tail(matches),
                       IF Truthy(Head(matches).game_id)
                       THEN DictSet(d, Head(matches)) ELSE d)

\* A sort step that is not stable: m goes before the elements of equal key.
RECURSIVE InsertSortedUnstable(_, _)
InsertSortedUnstable(s, m) ==
    IF s = <<>> THEN <<m>>
    ELSE IF MatchSortKey(Head(s)) < MatchSortKey(m)
         THEN <<Head(s)>> \o InsertSortedUnstable(Tail(s), m)
         ELSE <<m>> \o s

\* One step of a stable ascending sort: m goes after every element whose
\* key is not greater.
RECURSIVE InsertSorted(_, _)
InsertSorted(s, m) ==
    IF s = <<>> THEN <<m>>
    ELSE IF MatchSortKey(Head(s)) <= MatchSortKey(m)
         THEN <<Head(s)>> \o InsertSorted(Tail(s), m)
         ELSE <<m>> \o s

\* The values in the order in which the dict holds them.
KeepsOrder(s) == s

RECURSIVE SortedFrom(_, _)
SortedFrom(s, acc) ==
    IF s = <<>> THEN acc ELSE SortedFrom(Tail(s), InsertSorted(acc, Head(s)))

\* sorted(values, key=match_sort_key): Python's sort is stable.
SortedByKey(s) == SortedFrom(s, <<>>)

\* The list save_matches dumps: line 409.
SortedMatches(matches) == SortedByKey(UniqueMatches(matches, <<>>))

\* list.sort(key=match_sort_key, reverse=True): descending, and still stable.
RECURSIVE InsertSortedDesc(_, _)
InsertSortedDesc(s, m) ==
    IF s = <<>> THEN <<m>>
    ELSE IF MatchSortKey(Head(s)) >= MatchSortKey(m)
         THEN <<Head(s)>> \o InsertSortedDesc(Tail(s), m)
         ELSE <<m>> \o s

RECURSIVE SortedDescFrom(_, _)
SortedDescFrom(s, acc) ==
    IF s = <<>> THEN acc ELSE SortedDescFrom(Tail(s), InsertSortedDesc(acc, Head(s)))

\* refresh_matches, lines 808-816.
RECURSIVE AllMap(_, _)
AllMap(matches, d) ==
    IF matches = <<>> THEN d ELSE AllMap(Tail(matches), DictSet(d, Head(matches)))

MergeMatches(cached, new) ==
    IF new # <<>> THEN AllMap(new, AllMap(cached, <<>>)) ELSE cached

GameIds(s) == {s[i].game_id : i \in 1..Len(s)}

(* ------------------------------ fetch --------------------------------- *)

\* The records the source returns for start=offset, count=PageSize.
Page(history, offset) ==
    SubSeq(history, offset + 1,
           IF offset + PageSize <= Len(history) THEN offset + PageSize ELSE Len(history))

\* A scan that notes a known id and goes on to the records after it.
RECURSIVE ScanPageNoBreak(_, _, _)
ScanPageNoBreak(recs, known, st) ==
    IF recs = <<>> THEN st
    ELSE LET game_id == Str(Head(recs).id) IN
         IF game_id \in known
         THEN ScanPageNoBreak(Tail(recs), known, [st EXCEPT !.reached = TRUE])
         ELSE IF game_id \in st.seen THEN ScanPageNoBreak(Tail(recs), known, st)
         ELSE ScanPageNoBreak(Tail(recs), known,
                              [new     |-> Append(st.new, ParseNativeMatch(Head(recs))),
                               seen    |-> st.seen \cup {game_id},
                               reached |-> st.reached])

\* fetch_new_matches, lines 437-449: the scan of one page.  st holds
\* all_new_matches, seen_ids and reached_known.
RECURSIVE ScanPage(_, _, _)
ScanPage(recs, known, st) ==
    IF recs = <<>> THEN st
    ELSE LET game_id == Str(Head(recs).id) IN
         IF game_id \in known THEN [st EXCEPT !.reached = TRUE]
         ELSE IF game_id \in st.seen THEN ScanPage(Tail(recs), known, st)
         ELSE ScanPage(Tail(recs), known,
                       [new     |-> Append(st.new, ParseNativeMatch(Head(recs))),
                        seen    |-> st.seen \cup {game_id},
                        reached |-> FALSE])

(* ------------------------- sync status (spec 4.3) --------------------- *)

\* The persisted completeness flag: complete if the natural end was reached,
\* else complete only if a known cutoff was hit and the prior status was
\* already complete.
IsCompleteRule(hit_end, hit_known, prior_complete) ==
    hit_end \/ (hit_known /\ prior_complete)

(* ------------------------------ state --------------------------------- *)

VARIABLES
    remote,   \* the source's match history of the player, newest first
    store,    \* the player's match file matches_<id>.json
    status,   \* the player's status record
    lock,     \* holder of the advisory lock on the status record, or Free
    pc,       \* where each request is
    result,   \* the reply each request last gave
    loc,      \* each request's local variables
    id_mappings  \* the shared file id_mappings.json

vars == <<remote, store, status, lock, pc, result, loc, id_mappings>>

NoFile == [exists |-> FALSE, items |-> <<>>, complete |-> FALSE]

\* The ids a player has on the site, and those of the native id space: texts
\* of digits, here numbered.  They are text at every caller (app.py lines
\* 74, 129, 141, 158), so a mapping reads back from the JSON file as written.
SiteIds == 1..MaxSiteId

NativeIds == 1..MaxNativeId

\* id_mappings.json: m[i] is the native id stored for site id i, or Absent;
\* complete is FALSE from open("w") until the dump has been written.
\* Here every site id is on file, mapped to itself, so that get_relic_id
\* (called first thing by fetch_new_matches, line 419) answers from the file
\* and neither asks the network nor writes.
AllResolved == [m |-> [i \in SiteIds |-> i], complete |-> TRUE]

\* The text of a player id: the id of a player (USER_IDS), a text that is
\* no id, and the empty text.
UserId == "12649589"
PlayerIdInputs == {UserId, "abc", ""}
ValidPlayerIds == {UserId}

IdleLoc ==
    [mode            |-> "none",
     player_id       |-> UserId,
     cached_matches  |-> <<>>,
     known_ids       |-> {},
     all_new_matches |-> <<>>,
     seen_ids        |-> {},
     reached_known   |-> FALSE,
     i               |-> 0,
     max_pages       |-> 0,
     start_page      |-> 0,
     offsets         |-> <<>>,
     received        |-> <<>>,
     elapsed         |-> 0,
     exit            |-> "none",
     updated_matches |-> <<>>,
     sorted_matches  |-> <<>>,
     written         |-> 0,
     batches         |-> 0]

Init ==
    /\ remote = <<>>
    /\ store = NoFile
    /\ status = [is_complete |-> FALSE, last_page_fetched |-> 0]
    /\ lock = Free
    /\ pc = [p \in Procs |-> "idle"]
    /\ result = [p \in Procs |-> "none"]
    /\ loc = [p \in Procs |-> IdleLoc]
    /\ id_mappings = AllResolved

(* ------------------------------ source -------------------------------- *)

\* A match is played: the source lists it first.  Its id is new, or missing;
\* the n-th match ends in minute n.
NewRecords ==
    [id : {Len(remote) + 1, Absent},
     startgametime : RawStartTimes,
     completiontime : {SecondsPerMinute * (Len(remote) + 1) + 5}]

RemoteGrows(max) ==
    /\ Len(remote) < max
    /\ \E rec \in NewRecords : remote' = <<rec>> \o remote
    /\ UNCHANGED <<store, status, lock, pc, result, loc, id_mappings>>

RemoteNewMatch == RemoteGrows(MaxRemote)

RemoteNewMatchConc == RemoteGrows(ConcRemote)

(* --------------------------- the advisory lock ------------------------ *)

\* is_file_locked(status_path_for(user_id)).
IsFileLocked == lock # Free

(* ----------------------------- handlers ------------------------------- *)

\* A refresh handler that starts the refresh without looking at the lock.
RefreshPlayerNoCheck(p) ==
    /\ pc[p] = "idle"
    /\ pc' = [pc EXCEPT ![p] = "rm_load"]
    /\ loc' = [loc EXCEPT ![p] = [IdleLoc EXCEPT !.mode = "refresh"]]
    /\ result' = [result EXCEPT ![p] = "pending"]
    /\ UNCHANGED <<remote, store, status, lock, id_mappings>>

\* app.py refresh_player.
RefreshPlayer(p) ==
    /\ pc[p] = "idle"
    /\ IF IsFileLocked
       THEN /\ result' = [result EXCEPT ![p] = "error409"]
            /\ UNCHANGED <<pc, loc>>
       ELSE /\ pc' = [pc EXCEPT ![p] = "rm_load"]
            /\ loc' = [loc EXCEPT ![p] = [IdleLoc EXCEPT !.mode = "refresh"]]
            /\ result' = [result EXCEPT ![p] = "pending"]
    /\ UNCHANGED <<remote, store, status, lock, id_mappings>>

\* webui.py _load_matches with refresh set.
WebuiLoad(p) ==
    /\ pc[p] = "idle"
    /\ pc' = [pc EXCEPT ![p] = "rm_load"]
    /\ loc' = [loc EXCEPT ![p] = [IdleLoc EXCEPT !.mode = "webui"]]
    /\ result' = [result EXCEPT ![p] = "pending"]
    /\ UNCHANGED <<remote, store, status, lock, id_mappings>>

\* refresh_matches, lines 797-805: load the cache, collect the known ids
\* and enter fetch_new_matches(user_id, known_ids, max_pages=None).
RmLoad(p) ==
    /\ pc[p] = "rm_load"
    /\ LET cached == LoadCachedMatches(store) IN
       loc' = [loc EXCEPT ![p].cached_matches = cached,
                          ![p].known_ids = {g \in GameIds(cached) : Truthy(g)},
                          ![p].max_pages = MaxPages]
    /\ pc' = [pc EXCEPT ![p] = "fetch"]
    /\ UNCHANGED <<remote, store, status, lock, result, id_mappings>>

\* One iteration of the loop of fetch_new_matches, lines 425-452: the
\* request for start = i * 100 (start_page is not used) and the scan of the
\* page.  ok is whether get_native_matches got a 200 response; lat is the
\* time the request took.  exit tells how the loop ended: on a page without
\* matches ("end"), on a failed request ("error": the same break), on a
\* known id, or with the page budget used up.
FetchPage(p) ==
    /\ pc[p] = "fetch"
    /\ \E ok \in BOOLEAN, lat \in 1..MaxLatency :
         LET l      == loc[p]
             offset == l.i * PageSize
             data   == IF ok THEN Page(remote, offset) ELSE <<>>
             st     == ScanPage(data, l.known_ids,
                                [new |-> l.all_new_matches, seen |-> l.seen_ids,
                                 reached |-> FALSE])
             last   == l.i + 1 >= l.max_pages
             exit   == IF data = <<>> THEN (IF ok THEN "end" ELSE "error")
                       ELSE IF st.reached THEN "known"
                       ELSE IF last THEN "budget" ELSE "none"
         IN /\ loc' = [loc EXCEPT
                 ![p].offsets         = Append(l.offsets, offset),
                 ![p].received        = Append(l.received, data),
                 ![p].elapsed         = IF exit = "none" THEN l.elapsed + lat ELSE 0,
                 ![p].all_new_matches = IF data = <<>> THEN l.all_new_matches ELSE st.new,
                 ![p].seen_ids        = IF data = <<>> THEN l.seen_ids ELSE st.seen,
                 ![p].reached_known   = data # <<>> /\ st.reached,
                 ![p].i               = IF data # <<>> /\ ~st.reached THEN l.i + 1 ELSE l.i,
                 ![p].exit            = exit]
            /\ pc' = [pc EXCEPT ![p] = IF exit = "none" THEN "fetch" ELSE "rm_merge"]
    /\ UNCHANGED <<remote, store, status, lock, result, id_mappings>>

\* refresh_matches, lines 808-816: the fetched matches are merged with the
\* cached ones.
RmMerge(p) ==
    /\ pc[p] = "rm_merge"
    /\ loc' = [loc EXCEPT ![p].updated_matches =
                 MergeMatches(loc[p].cached_matches, loc[p].all_new_matches)]
    /\ pc' = [pc EXCEPT ![p] = "save_open"]
    /\ UNCHANGED <<remote, store, status, lock, result, id_mappings>>

\* save_matches, lines 402-411: dedupe, sort, and open(path, "w"), which
\* creates the file or cuts it to length 0.
SaveOpen(p) ==
    /\ pc[p] = "save_open"
    /\ loc' = [loc EXCEPT ![p].sorted_matches = SortedMatches(loc[p].updated_matches),
                          ![p].written = 0]
    /\ store' = [exists |-> TRUE, items |-> <<>>, complete |-> FALSE]
    /\ pc' = [pc EXCEPT ![p] = "save_write"]
    /\ UNCHANGED <<remote, status, lock, result, id_mappings>>

\* A missing stretch of a file written past its end.
Hole == [game_id |-> Absent, start_datetime |-> Absent, end_datetime |-> Absent,
         has_won |-> FALSE]

\* items with item put at position k of the file, k counted from 1.
WriteAt(items, k, item) ==
    [j \in 1..(IF Len(items) > k THEN Len(items) ELSE k) |->
        IF j = k THEN item ELSE IF j <= Len(items) THEN items[j] ELSE Hole]

\* json.dump, line 412: the next part of the text reaches the file, at this
\* writer's own position.
SaveWrite(p) ==
    /\ pc[p] = "save_write"
    /\ loc[p].written < Len(loc[p].sorted_matches)
    /\ LET k == loc[p].written + 1 IN
       /\ store' = [exists |-> TRUE,
                    items |-> WriteAt(store.items, k, loc[p].sorted_matches[k]),
                    complete |-> FALSE]
       /\ loc' = [loc EXCEPT ![p].written = k]
    /\ UNCHANGED <<remote, status, lock, pc, result, id_mappings>>

\* The end of the with block: the rest of the text is flushed and the file
\* closed.  The file decodes if it holds this writer's text and nothing else.
SaveClose(p) ==
    /\ pc[p] = "save_write"
    /\ loc[p].written = Len(loc[p].sorted_matches)
    /\ store' = [exists |-> TRUE, items |-> store.items,
                 complete |-> store.items = loc[p].sorted_matches]
    /\ pc' = [pc EXCEPT ![p] = IF loc[p].mode = "backfill" THEN "bf_status"
                               ELSE IF loc[p].mode \in {"refresh", "webui"} THEN "rm_reload"
                               ELSE "idle"]
    /\ UNCHANGED <<remote, status, lock, result, loc, id_mappings>>

\* refresh_matches, lines 821-824, and the handler's reply.
RmReload(p) ==
    /\ pc[p] = "rm_reload"
    /\ pc' = [pc EXCEPT ![p] = "idle"]
    /\ result' = [result EXCEPT ![p] = "success200"]
    /\ loc' = [loc EXCEPT ![p] = IdleLoc]
    /\ UNCHANGED <<remote, store, status, lock, id_mappings>>

\* The process or thread of a request dies.  The operating system drops the
\* advisory lock it held; the files stay as they are.
Crash(p) ==
    /\ pc[p] # "idle"
    /\ pc' = [pc EXCEPT ![p] = "idle"]
    /\ result' = [result EXCEPT ![p] = "crashed"]
    /\ loc' = [loc EXCEPT ![p] = IdleLoc]
    /\ lock' = IF lock = p THEN Free ELSE lock
    /\ UNCHANGED <<remote, store, status, id_mappings>>

(* ------------------------- backfill (app.py) -------------------------- *)

\* app.py backfill_player: the lock check, load_status, and the start of the
\* thread that runs run_backfill.
BackfillPlayer(p) ==
    /\ pc[p] = "idle"
    /\ status.last_page_fetched + BatchPages <= MaxPageIndex
    /\ IF IsFileLocked
       THEN /\ result' = [result EXCEPT ![p] = "running202"]
            /\ UNCHANGED <<pc, loc>>
       ELSE /\ pc' = [pc EXCEPT ![p] = "bf_acquire"]
            /\ loc' = [loc EXCEPT ![p] = [IdleLoc EXCEPT !.mode = "backfill"]]
            /\ result' = [result EXCEPT ![p] = "started202"]
    /\ UNCHANGED <<remote, store, status, lock, id_mappings>>

\* backfill_history, its start: the lock is taken, or the call gives up.
BfAcquire(p) ==
    /\ pc[p] = "bf_acquire"
    /\ IF lock # Free
       THEN /\ pc' = [pc EXCEPT ![p] = "idle"]
            /\ result' = [result EXCEPT ![p] = "busy"]
            /\ loc' = [loc EXCEPT ![p] = IdleLoc]
            /\ UNCHANGED lock
       ELSE /\ lock' = p
            /\ pc' = [pc EXCEPT ![p] = "bf_load"]
            /\ UNCHANGED <<result, loc>>
    /\ UNCHANGED <<remote, store, status, id_mappings>>

\* backfill_history, the start of a batch: the store is read again and
\* fetch_new_matches is entered for the pages after last_page_fetched, with
\* no known ids to stop at.
BfLoad(p) ==
    /\ pc[p] = "bf_load"
    /\ loc' = [loc EXCEPT ![p] =
                 [IdleLoc EXCEPT !.mode = "backfill",
                                 !.batches = loc[p].batches,
                                 !.cached_matches = LoadCachedMatches(store),
                                 !.start_page = status.last_page_fetched + 1,
                                 !.max_pages = BatchPages]]
    /\ pc' = [pc EXCEPT ![p] = "fetch"]
    /\ UNCHANGED <<remote, store, status, lock, result, id_mappings>>

\* backfill_history, the end of a batch: the status is saved, and either the
\* next batch starts or the call ends and gives the lock back.
BfStatus(p) ==
    /\ pc[p] = "bf_status"
    /\ LET l    == loc[p]
           last == l.start_page - 1 + l.i
           more == /\ l.exit = "budget"
                   /\ l.batches + 1 < MaxBatches
                   /\ last + BatchPages <= MaxPageIndex
       IN /\ status' = [is_complete |-> IsCompleteRule(l.exit = "end", l.reached_known,
                                                        status.is_complete),
                        last_page_fetched |-> last]
          /\ IF more
             THEN /\ pc' = [pc EXCEPT ![p] = "bf_load"]
                  /\ loc' = [loc EXCEPT ![p].batches = l.batches + 1]
                  /\ UNCHANGED <<lock, result>>
             ELSE /\ pc' = [pc EXCEPT ![p] = "idle"]
                  /\ loc' = [loc EXCEPT ![p] = IdleLoc]
                  /\ lock' = Free
                  /\ result' = [result EXCEPT ![p] = "finished"]
    /\ UNCHANGED <<remote, store, id_mappings>>

Step(p) ==
    \/ RefreshPlayer(p)
    \/ WebuiLoad(p)
    \/ RmLoad(p)
    \/ FetchPage(p)
    \/ RmMerge(p)
    \/ SaveOpen(p)
    \/ SaveWrite(p)
    \/ SaveClose(p)
    \/ RmReload(p)
    \/ BackfillPlayer(p)
    \/ BfAcquire(p)
    \/ BfLoad(p)
    \/ BfStatus(p)
    \/ Crash(p)

\* One worker serves the requests one after the other.
Next == RemoteNewMatch \/ Step(1)

Spec == Init /\ [][Next]_vars

(* --------------------- save_matches on its own ------------------------ *)

\* The matches a caller may hand to save_matches: with and without a
\* game_id, a start time and an end time.
SaveMatchSet ==
    [game_id : {Absent, 1, 2}, start_datetime : {Absent, 1, 2},
     end_datetime : {Absent, 1}, has_won : {FALSE}]

SaveLists == UNION {[1..n -> SaveMatchSet] : n \in 0..MaxLen}

\* refresh_matches has a list of cached matches and a list of new ones and
\* is about to merge and save them.  With no new matches it hands the
\* cached list to save_matches as it is.
InitSave ==
    /\ remote = <<>>
    /\ store = NoFile
    /\ status = [is_complete |-> FALSE, last_page_fetched |-> 0]
    /\ lock = Free
    /\ pc = [p \in Procs |-> IF p = 1 THEN "rm_merge" ELSE "idle"]
    /\ result = [p \in Procs |-> "none"]
    /\ id_mappings = AllResolved
    /\ \E matches \in SaveLists : \E k \in 0..Len(matches) :
         loc = [p \in Procs |-> IF p = 1
                                THEN [IdleLoc EXCEPT
                                        !.mode = "save",
                                        !.cached_matches = SubSeq(matches, 1, k),
                                        !.all_new_matches =
                                            SubSeq(matches, k + 1, Len(matches))]
                                ELSE IdleLoc]

\* dedupe_cache_file, lines 846-855, up to its call of save_matches.
DedupeCacheFile(p) ==
    /\ pc[p] = "idle"
    /\ store.exists
    /\ LET matches == LoadCachedMatches(store) IN
       loc' = [loc EXCEPT ![p] =
                 [IdleLoc EXCEPT !.mode = "dedupe",
                                 !.cached_matches = matches,
                                 !.updated_matches =
                                     SortedDescFrom(AllMap(matches, <<>>), <<>>)]]
    /\ pc' = [pc EXCEPT ![p] = "save_open"]
    /\ UNCHANGED <<remote, store, status, lock, result, id_mappings>>

NextSave ==
    RmMerge(1) \/ SaveOpen(1) \/ SaveWrite(1) \/ SaveClose(1) \/ DedupeCacheFile(1)

SpecSave == InitSave /\ [][NextSave]_vars

\* Two workers serve requests at the same time.
NextConc == RemoteNewMatchConc \/ \E p \in Procs : Step(p)

SpecConc == Init /\ [][NextConc]_vars

(* ------------------ requests with any player id ---------------------- *)

\* webui.py index, lines 106-113: player_id is the stripped query argument;
\* if it is not empty the matches are loaded, through refresh_matches when
\* refresh=1 and from the file otherwise.  Nothing else is asked of the id.
\* The source has no history under a text that is no player's id.
WebuiIndex(p) ==
    /\ pc[p] = "idle"
    /\ \E player_id \in PlayerIdInputs, refresh \in BOOLEAN :
         /\ player_id \in ValidPlayerIds \/ remote = <<>>
         /\ IF player_id = ""
            THEN /\ loc' = [loc EXCEPT ![p] = [IdleLoc EXCEPT !.mode = "index",
                                                             !.player_id = player_id]]
                 /\ result' = [result EXCEPT ![p] = "ok200"]
                 /\ UNCHANGED pc
            ELSE IF refresh
            THEN /\ loc' = [loc EXCEPT ![p] = [IdleLoc EXCEPT !.mode = "webui",
                                                             !.player_id = player_id]]
                 /\ result' = [result EXCEPT ![p] = "pending"]
                 /\ pc' = [pc EXCEPT ![p] = "rm_load"]
            ELSE /\ loc' = [loc EXCEPT ![p] =
                              [IdleLoc EXCEPT !.mode = "webui_read",
                                              !.player_id = player_id,
                                              !.cached_matches = LoadCachedMatches(store)]]
                 /\ result' = [result EXCEPT ![p] = "ok200"]
                 /\ UNCHANGED pc
    /\ UNCHANGED <<remote, store, status, lock, id_mappings>>

\* A match is played by the player whose history the source holds.
RemoteNewMatchOfPlayer ==
    /\ \A p \in Procs : loc[p].player_id \in ValidPlayerIds
    /\ RemoteGrows(MaxRemote)

NextInput ==
    \/ RemoteNewMatchOfPlayer
    \/ WebuiIndex(1)
    \/ RmLoad(1)
    \/ FetchPage(1)
    \/ RmMerge(1)
    \/ SaveOpen(1)
    \/ SaveWrite(1)
    \/ SaveClose(1)
    \/ RmReload(1)

SpecInput == Init /\ [][NextInput]_vars

(* --------------------------- group_sessions -------------------------- *)

\* Start times, in seconds, of the entries handed to group_sessions: 0, 10,
\* 31, 40, 45 and 51 minutes.  An entry ends when it starts or half a minute
\* later (prepare_user_matches, lines 650-656).
EntryTimes == {0, 600, 1860, 2400, 2700, 3060}

Entries ==
    {e \in [ts : EntryTimes, end_ts : EntryTimes \cup {t + 30 : t \in EntryTimes},
            win : BOOLEAN] : e.end_ts \in {e.ts, e.ts + 30}}

PreparedLists == UNION {[1..n -> Entries] : n \in 0..MaxEntries}

\* sorted(prepared, key=lambda x: x["ts"]): one step of the stable sort.
RECURSIVE InsertByTs(_, _)
InsertByTs(s, e) ==
    IF s = <<>> THEN <<e>>
    ELSE IF Head(s).ts <= e.ts THEN <<Head(s)>> \o InsertByTs(Tail(s), e)
    ELSE <<e>> \o s

RECURSIVE SortedByTs(_, _)
SortedByTs(s, acc) ==
    IF s = <<>> THEN acc ELSE SortedByTs(Tail(s), InsertByTs(acc, Head(s)))

\* A test that also splits on a gap equal to the threshold.
GapAtLeast(ts, last_end, idle_minutes) ==
    (ts - last_end) >= idle_minutes * SecondsPerMinute

\* Lines 679-680: gap = (ts - last_end).total_seconds() / 60.0 and
\* is_new = gap > idle_minutes.  The quotient is not rounded, so the test is
\* that of the seconds against idle_minutes * 60.
GapExceeds(ts, last_end, idle_minutes) ==
    (ts - last_end) > idle_minutes * SecondsPerMinute

\* The loop of lines 673-687.  first is the test last_end is None; g holds
\* sessions, current and last_end.
RECURSIVE GroupLoop(_, _, _, _)
GroupLoop(entries, idle_minutes, first, g) ==
    IF entries = <<>> THEN g
    ELSE LET entry == Head(entries) IN
         IF first
         THEN GroupLoop(Tail(entries), idle_minutes, FALSE,
                        [g EXCEPT !.current = Append(g.current, entry),
                                  !.last_end = entry.end_ts])
         ELSE IF GapExceeds(entry.ts, g.last_end, idle_minutes)
         THEN GroupLoop(Tail(entries), idle_minutes, FALSE,
                        [sessions |-> IF g.current # <<>>
                                      THEN Append(g.sessions, g.current)
                                      ELSE g.sessions,
                         current  |-> <<entry>>,
                         last_end |-> entry.end_ts])
         ELSE GroupLoop(Tail(entries), idle_minutes, FALSE,
                        [g EXCEPT !.current = Append(g.current, entry),
                                  !.last_end = entry.end_ts])

\* A grouping that returns without the session still open at the end.
GroupSessionsOpenLeft(prepared, idle_minutes) ==
    GroupLoop(SortedByTs(prepared, <<>>), idle_minutes, TRUE,
              [sessions |-> <<>>, current |-> <<>>, last_end |-> 0]).sessions

\* group_sessions, lines 668-690.
GroupSessionsOf(prepared, idle_minutes) ==
    LET g == GroupLoop(SortedByTs(prepared, <<>>), idle_minutes, TRUE,
                       [sessions |-> <<>>, current |-> <<>>, last_end |-> 0])
    IN IF g.current # <<>> THEN Append(g.sessions, g.current) ELSE g.sessions

\* The sessions laid end to end.
RECURSIVE Concat(_)
Concat(sessions) ==
    IF sessions = <<>> THEN <<>> ELSE Head(sessions) \o Concat(Tail(sessions))

\* A request that is about to group the prepared entries.
SessionLoc(prepared) ==
    [mode |-> "sessions", prepared |-> prepared, idle_minutes |-> SessionIdleMinutes,
     sessions |-> <<>>]

InitSessions ==
    /\ remote = <<>>
    /\ store = NoFile
    /\ status = [is_complete |-> FALSE, last_page_fetched |-> 0]
    /\ lock = Free
    /\ id_mappings = AllResolved
    /\ pc = [p \in Procs |-> IF p = 1 THEN "group" ELSE "idle"]
    /\ result = [p \in Procs |-> "none"]
    /\ \E prepared \in PreparedLists :
         loc = [p \in Procs |-> IF p = 1 THEN SessionLoc(prepared) ELSE IdleLoc]

\* app.py get_player_context, line 93: sessions = mh.group_sessions(prepared).
GroupSessions(p) ==
    /\ pc[p] = "group"
    /\ loc' = [loc EXCEPT ![p].sessions =
                 GroupSessionsOf(loc[p].prepared, loc[p].idle_minutes)]
    /\ pc' = [pc EXCEPT ![p] = "grouped"]
    /\ UNCHANGED <<remote, store, status, lock, result, id_mappings>>

NextSessions == GroupSessions(1)

SpecSessions == InitSessions /\ [][NextSessions]_vars

(* ------------------------- who won a match --------------------------- *)

\* The matchhistorymember entries of a raw match: the team, the ratings
\* before and after (a rating may be missing) and the outcome (1 a win, 0 a
\* loss, or missing).  Member k has profile_id k.  No difference of ratings
\* is -1, the value that stands for None.
RawMembers ==
    [teamid : {0, 1}, oldrating : {1000}, newrating : {Absent, 985, 1000, 1015},
     outcome : {Absent, 0, 1}]

MemberLists == UNION {[1..n -> RawMembers] : n \in 0..MaxMembers}

\* Line 265: elo_change = (new_r - old_r) if both are not None else None.
EloChange(member) ==
    IF member.newrating # Absent /\ member.oldrating # Absent
    THEN member.newrating - member.oldrating
    ELSE Absent

\* determine_win, lines 141-150.  player.get("elo_change") is falsy for None
\* and for 0.
DetermineWin(team, player) ==
    IF player.elo_change # Absent /\ player.elo_change # 0
    THEN player.elo_change > 0
    ELSE IF player.has_outcome THEN player.outcome = 1
    ELSE team.won

\* Lines 266-283: the player object of member k, with its placeholder "won"
\* and the "outcome" key, which is always set.
PlayerObj(members, k) ==
    [player_id   |-> k,
     elo_change  |-> EloChange(members[k]),
     outcome     |-> members[k].outcome,
     has_outcome |-> TRUE,
     won         |-> FALSE]

\* The members of team t as player objects, in the order of the members.
RECURSIVE TeamPlayers(_, _, _)
TeamPlayers(members, t, k) ==
    IF k > Len(members) THEN <<>>
    ELSE (IF members[k].teamid = t THEN <<PlayerObj(members, k)>> ELSE <<>>)
         \o TeamPlayers(members, t, k + 1)

\* Lines 295-298: each player's "won" is set by determine_win, against a
\* team object whose "won" is False, and "outcome" is removed.
RECURSIVE ResolvePlayers(_)
ResolvePlayers(players) ==
    IF players = <<>> THEN <<>>
    ELSE LET pl == Head(players) IN
         <<[player_id  |-> pl.player_id,
            elo_change |-> pl.elo_change,
            won        |-> DetermineWin([won |-> FALSE], pl)]>>
         \o ResolvePlayers(Tail(players))

\* A team that has won when more than half of its players have.
TeamByMajority(members, t) ==
    LET players == ResolvePlayers(TeamPlayers(members, t, 1)) IN
    [won |-> 2 * Cardinality({k \in 1..Len(players) : players[k].won}) > Len(players),
     players |-> players]

\* Lines 300-308: team_won = any(p["won"] for p in players).
TeamOf(members, t) ==
    LET players == ResolvePlayers(TeamPlayers(members, t, 1)) IN
    [won |-> \E k \in 1..Len(players) : players[k].won, players |-> players]

\* Lines 286-308: the teams, in ascending order of their team ids.
ParseTeams(members) ==
    LET ids == {members[k].teamid : k \in 1..Len(members)} IN
    (IF 0 \in ids THEN <<TeamOf(members, 0)>> ELSE <<>>)
    \o (IF 1 \in ids THEN <<TeamOf(members, 1)>> ELSE <<>>)

\* normalize_match, lines 329-344: the players are rebuilt without "won";
\* the team keeps bool(team.get("won")).
RECURSIVE NormalizePlayers(_)
NormalizePlayers(players) ==
    IF players = <<>> THEN <<>>
    ELSE <<[player_id |-> Head(players).player_id,
            elo_change |-> Head(players).elo_change]>>
         \o NormalizePlayers(Tail(players))

RECURSIVE NormalizeTeams(_)
NormalizeTeams(teams) ==
    IF teams = <<>> THEN <<>>
    ELSE <<[won |-> Head(teams).won, players |-> NormalizePlayers(Head(teams).players)]>>
         \o NormalizeTeams(Tail(teams))

\* user_outcome, lines 614-631: the first team that has the user among its
\* players; the result is that team's "won".
RECURSIVE UserOutcome(_, _)
UserOutcome(teams, user_id) ==
    IF teams = <<>> THEN [found |-> FALSE, win |-> FALSE]
    ELSE IF \E k \in 1..Len(Head(teams).players) :
                Head(teams).players[k].player_id = user_id
         THEN [found |-> TRUE, win |-> Head(teams).won]
         ELSE UserOutcome(Tail(teams), user_id)

\* A refresh that is about to parse a raw match with these members.
WinLoc(members) ==
    [mode |-> "win", members |-> members, teams |-> <<>>, stored |-> <<>>,
     user_id |-> 0, outcome |-> [found |-> FALSE, win |-> FALSE]]

InitWin ==
    /\ remote = <<>>
    /\ store = NoFile
    /\ status = [is_complete |-> FALSE, last_page_fetched |-> 0]
    /\ lock = Free
    /\ id_mappings = AllResolved
    /\ pc = [p \in Procs |-> IF p = 1 THEN "parse" ELSE "idle"]
    /\ result = [p \in Procs |-> "none"]
    /\ \E members \in MemberLists :
         loc = [p \in Procs |-> IF p = 1 THEN WinLoc(members) ELSE IdleLoc]

\* parse_native_match, lines 250-308, on the members of the raw match.
ParseMembers(p) ==
    /\ pc[p] = "parse"
    /\ loc' = [loc EXCEPT ![p].teams = ParseTeams(loc[p].members)]
    /\ pc' = [pc EXCEPT ![p] = "parsed"]
    /\ UNCHANGED <<remote, store, status, lock, result, id_mappings>>

\* The match is saved and later loaded, through normalize_match.
StoreAndLoad(p) ==
    /\ pc[p] = "parsed"
    /\ loc' = [loc EXCEPT ![p].stored = NormalizeTeams(loc[p].teams)]
    /\ pc' = [pc EXCEPT ![p] = "stored"]
    /\ UNCHANGED <<remote, store, status, lock, result, id_mappings>>

\* prepare_user_matches, line 646 (and compute_ranked_stats, lines 494-510):
\* the result of the match for one of its players.
ReadOutcome(p) ==
    /\ pc[p] = "stored"
    /\ \E user_id \in 1..Len(loc[p].members) :
         loc' = [loc EXCEPT ![p].user_id = user_id,
                            ![p].outcome = UserOutcome(loc[p].stored, user_id)]
    /\ pc' = [pc EXCEPT ![p] = "outcome_read"]
    /\ UNCHANGED <<remote, store, status, lock, result, id_mappings>>

NextWin == ParseMembers(1) \/ StoreAndLoad(1) \/ ReadOutcome(1)

SpecWin == InitWin /\ [][NextWin]_vars

(* ---------------------------- bucket_label --------------------------- *)

\* DURATION_BUCKETS, lines 459-465; the last bucket has no upper bound.
DurationBuckets ==
    << [label |-> "< 5m",   lower |-> 0,       upper |-> 5 * 60],
       [label |-> "5-15m",  lower |-> 5 * 60,  upper |-> 15 * 60],
       [label |-> "15-25m", lower |-> 15 * 60, upper |-> 25 * 60],
       [label |-> "25-40m", lower |-> 25 * 60, upper |-> 40 * 60],
       [label |-> ">= 40m", lower |-> 40 * 60, upper |-> Absent] >>

\* A test that takes the upper bound into the bucket and leaves the lower
\* bound out.
InBucketUpperInclusive(bucket, seconds) ==
    IF bucket.upper = Absent THEN seconds > bucket.lower
    ELSE bucket.lower < seconds /\ seconds <= bucket.upper

\* Lines 472-475: the two tests of the loop.
InBucket(bucket, seconds) ==
    \/ bucket.upper = Absent /\ seconds >= bucket.lower
    \/ bucket.upper # Absent /\ bucket.lower <= seconds /\ seconds < bucket.upper

\* Lines 471-476: the label of the first bucket that takes the value, else
\* None.
RECURSIVE BucketScan(_, _)
BucketScan(buckets, seconds) ==
    IF buckets = <<>> THEN "None"
    ELSE IF InBucket(Head(buckets), seconds) THEN Head(buckets).label
    ELSE BucketScan(Tail(buckets), seconds)

\* bucket_label, lines 468-476.
BucketLabel(seconds) ==
    IF seconds = Absent THEN "None" ELSE BucketScan(DurationBuckets, seconds)

\* A request that is about to put a duration into its bucket.
BucketLoc(seconds) == [mode |-> "bucket", seconds |-> seconds, label |-> "None"]

InitBuckets ==
    /\ remote = <<>>
    /\ store = NoFile
    /\ status = [is_complete |-> FALSE, last_page_fetched |-> 0]
    /\ lock = Free
    /\ id_mappings = AllResolved
    /\ pc = [p \in Procs |-> IF p = 1 THEN "bucket" ELSE "idle"]
    /\ result = [p \in Procs |-> "none"]
    /\ \E seconds \in (0..MaxSeconds) \cup {Absent} :
         loc = [p \in Procs |-> IF p = 1 THEN BucketLoc(seconds) ELSE IdleLoc]

\* compute_ranked_stats, lines 516-517: label = bucket_label(seconds).
LabelDuration(p) ==
    /\ pc[p] = "bucket"
    /\ loc' = [loc EXCEPT ![p].label = BucketLabel(loc[p].seconds)]
    /\ pc' = [pc EXCEPT ![p] = "labelled"]
    /\ UNCHANGED <<remote, store, status, lock, result, id_mappings>>

NextBuckets == LabelDuration(1)

SpecBuckets == InitBuckets /\ [][NextBuckets]_vars

(* ------------------------- session analytics ------------------------- *)

\* A quotient kept exact: a / b, or the ZeroDivisionError of b = 0.
Divide(a, b) ==
    IF b = 0 THEN [raised |-> TRUE, num |-> 0, den |-> 1]
    ELSE [raised |-> FALSE, num |-> a, den |-> b]

\* The float 0.0.
ZeroRate == [raised |-> FALSE, num |-> 0, den |-> 1]

\* wins / matches * 100 with no test of matches.
RateUnguarded(v) == Divide(v.wins * 100, v.matches)

\* win_rate, lines 561-562.
WinRate(row) == IF row.matches # 0 THEN Divide(row.wins * 100, row.matches) ELSE ZeroRate

\* The expression of rate(d), line 732.
SessionRate(v) == IF v.matches # 0 THEN Divide(v.wins * 100, v.matches) ELSE ZeroRate

\* The expression of line 748.
NthRate(v) == IF v.matches # 0 THEN Divide(v.wins * 100, v.matches) ELSE ZeroRate

\* d[key]["matches"] += dm; d[key]["wins"] += dw on a defaultdict kept as
\* the sequence of its rows in insertion order.
DictBump(d, key, dm, dw) ==
    IF \E k \in 1..Len(d) : d[k].key = key
    THEN [k \in 1..Len(d) |->
            IF d[k].key = key
            THEN [d[k] EXCEPT !.matches = @ + dm, !.wins = @ + dw]
            ELSE d[k]]
    ELSE Append(d, [key |-> key, matches |-> dm, wins |-> dw])

WinCount(win) == IF win THEN 1 ELSE 0

RECURSIVE SumWins(_)
SumWins(results) ==
    IF results = <<>> THEN 0 ELSE WinCount(Head(results)) + SumWins(Tail(results))

\* All games taken as those of one session.
OneRecord(sessions) == IF Concat(sessions) = <<>> THEN <<>> ELSE <<Concat(sessions)>>

\* Line 705: the results of each session that is not empty.
SessionRecords(sessions) == SelectSeq(sessions, LAMBDA sess : sess # <<>>)

\* Lines 718-729: the game at index idx (from 0) of a session.  acc holds
\* after_prev and after_streak, each with the keys TRUE and FALSE.
GameStep(acc, results, idx) ==
    LET win  == results[idx + 1]
        acc1 == IF idx >= 1
                THEN [acc EXCEPT !.after_prev[results[idx]] =
                        [@ EXCEPT !.matches = @ + 1, !.wins = @ + WinCount(win)]]
                ELSE acc
        acc2 == IF idx >= 2 /\ results[idx] /\ results[idx - 1]
                THEN [acc1 EXCEPT !.after_streak[TRUE] =
                        [@ EXCEPT !.matches = @ + 1, !.wins = @ + WinCount(win)]]
                ELSE acc1
    IN IF idx >= 2 /\ ~results[idx] /\ ~results[idx - 1]
       THEN [acc2 EXCEPT !.after_streak[FALSE] =
               [@ EXCEPT !.matches = @ + 1, !.wins = @ + WinCount(win)]]
       ELSE acc2

RECURSIVE GamesLoop(_, _, _)
GamesLoop(acc, results, idx) ==
    IF idx >= Len(results) THEN acc
    ELSE GamesLoop(GameStep(acc, results, idx), results, idx + 1)

\* Lines 714-729: the loop over the sessions.
RECURSIVE RecordsLoop(_, _)
RecordsLoop(acc, records) ==
    IF records = <<>> THEN acc
    ELSE LET results == Head(records)
             counted == [acc EXCEPT !.count_buckets =
                           DictBump(@, Len(results), Len(results), SumWins(results))]
         IN RecordsLoop(GamesLoop(counted, results, 0), Tail(records))

\* rate(d), lines 731-732, on a dict kept as a sequence of rows, and on one
\* with the keys TRUE and FALSE.
RateRows(d) ==
    [k \in 1..Len(d) |->
        [key |-> d[k].key, matches |-> d[k].matches, wins |-> d[k].wins,
         win_rate |-> SessionRate(d[k])]]

RateByResult(d) ==
    [r \in BOOLEAN |->
        [matches |-> d[r].matches, wins |-> d[r].wins, win_rate |-> SessionRate(d[r])]]

\* session_metrics, lines 704-738.
SessionMetricsOf(sessions) ==
    LET zero == [r \in BOOLEAN |-> [matches |-> 0, wins |-> 0]]
        acc  == RecordsLoop([count_buckets |-> <<>>, after_prev |-> zero,
                             after_streak |-> zero],
                            SessionRecords(sessions))
    IN [session_counts |-> RateRows(acc.count_buckets),
        after_prev     |-> RateByResult(acc.after_prev),
        after_streak   |-> RateByResult(acc.after_streak)]

\* Lines 745-747: the games of one session, counted from 1.
RECURSIVE NthGames(_, _, _)
NthGames(buckets, results, idx) ==
    IF idx > Len(results) THEN buckets
    ELSE NthGames(DictBump(buckets, idx, 1, WinCount(results[idx])), results, idx + 1)

RECURSIVE NthLoop(_, _)
NthLoop(buckets, sessions) ==
    IF sessions = <<>> THEN buckets
    ELSE NthLoop(NthGames(buckets, Head(sessions), 1), Tail(sessions))

\* nth_game_winrates, lines 741-748.
NthGameWinratesOf(sessions) ==
    LET buckets == NthLoop(<<>>, sessions) IN
    [k \in 1..Len(buckets) |->
        [key |-> buckets[k].key, matches |-> buckets[k].matches,
         wins |-> buckets[k].wins, win_rate |-> NthRate(buckets[k])]]

\* compute_ranked_stats, lines 516-521: the duration breakdown of the ranked
\* matches, each given by its bucket label and the user's result.
RECURSIVE DurationStats(_, _)
DurationStats(d, ranked) ==
    IF ranked = <<>> THEN d
    ELSE DurationStats(DictBump(d, Head(ranked).label, 1, WinCount(Head(ranked).win)),
                       Tail(ranked))

\* One step of items.sort(key=lambda r: (-r["matches"], -r["wins"])).
RowBefore(a, b) ==
    a.matches > b.matches \/ (a.matches = b.matches /\ a.wins >= b.wins)

RECURSIVE InsertRow(_, _)
InsertRow(rows, row) ==
    IF rows = <<>> THEN <<row>>
    ELSE IF RowBefore(Head(rows), row) THEN <<Head(rows)>> \o InsertRow(Tail(rows), row)
    ELSE <<row>> \o rows

RECURSIVE SortRows(_, _)
SortRows(rows, acc) ==
    IF rows = <<>> THEN acc ELSE SortRows(Tail(rows), InsertRow(acc, Head(rows)))

\* sorted_items_list, lines 565-574.
SortedItemsList(d) ==
    SortRows([k \in 1..Len(d) |->
                 [key |-> d[k].key, matches |-> d[k].matches, wins |-> d[k].wins,
                  win_rate |-> WinRate(d[k])]],
             <<>>)

\* The sessions handed to session_metrics: each the results of its games.
GameLists == UNION {[1..n -> BOOLEAN] : n \in 1..MaxGames}

SessionLists == UNION {[1..n -> GameLists] : n \in 0..MaxSessions}

RankedLists ==
    UNION {[1..n -> [label : {"< 5m", "5-15m"}, win : BOOLEAN]] : n \in 0..MaxRanked}

\* A request that is about to compute the analytics of these sessions and
\* ranked matches.
MetricsLoc(sessions, ranked) ==
    [mode |-> "metrics", sessions |-> sessions, ranked |-> ranked,
     duration_list |-> <<>>,
     metrics |-> SessionMetricsOf(<<>>),
     nth_stats |-> <<>>]

InitMetrics ==
    /\ remote = <<>>
    /\ store = NoFile
    /\ status = [is_complete |-> FALSE, last_page_fetched |-> 0]
    /\ lock = Free
    /\ id_mappings = AllResolved
    /\ pc = [p \in Procs |-> IF p = 1 THEN "stats" ELSE "idle"]
    /\ result = [p \in Procs |-> "none"]
    /\ \E sessions \in SessionLists, ranked \in RankedLists :
         loc = [p \in Procs |-> IF p = 1 THEN MetricsLoc(sessions, ranked) ELSE IdleLoc]

\* app.py get_player_context, lines 83-90: the ranked breakdown.
RankedBreakdown(p) ==
    /\ pc[p] = "stats"
    /\ loc' = [loc EXCEPT ![p].duration_list =
                 SortedItemsList(DurationStats(<<>>, loc[p].ranked))]
    /\ pc' = [pc EXCEPT ![p] = "metrics"]
    /\ UNCHANGED <<remote, store, status, lock, result, id_mappings>>

\* app.py get_player_context, line 96: metrics = mh.session_metrics(sessions).
SessionMetrics(p) ==
    /\ pc[p] = "metrics"
    /\ loc' = [loc EXCEPT ![p].metrics = SessionMetricsOf(loc[p].sessions)]
    /\ pc' = [pc EXCEPT ![p] = "nth"]
    /\ UNCHANGED <<remote, store, status, lock, result, id_mappings>>

\* app.py get_player_context, line 97: nth_stats = mh.nth_game_winrates(sessions).
NthGameWinrates(p) ==
    /\ pc[p] = "nth"
    /\ loc' = [loc EXCEPT ![p].nth_stats = NthGameWinratesOf(loc[p].sessions)]
    /\ pc' = [pc EXCEPT ![p] = "analysed"]
    /\ result' = [result EXCEPT ![p] = "ok200"]
    /\ UNCHANGED <<remote, store, status, lock, id_mappings>>

NextMetrics == RankedBreakdown(1) \/ SessionMetrics(1) \/ NthGameWinrates(1)

SpecMetrics == InitMetrics /\ [][NextMetrics]_vars

(* ---------------- load_cached_matches on any file ------------------- *)

\* What a call returns: a list, or an exception that leaves it.
Returned(v) == [raised |-> FALSE, value |-> v]
Raised == [raised |-> TRUE, value |-> <<>>]

\* The elements a JSON list in a match file may have: a dict with the
\* fields of a match ("match"); a value that is no dict, for which
\* normalize_match returns None ("not_dict"); a dict whose "teams",
\* "players", "map" or "duration" is of another type than lines 325-343 and
\* 362 expect, on which normalize_match raises TypeError or AttributeError
\* ("bad_fields").
FileItems ==
    [shape : {"match"},
     m : [game_id : {Absent, 1}, start_datetime : {Absent, 1},
          end_datetime : {Absent}, has_won : {FALSE}]]
    \cup {[shape |-> sh, m |-> Hole] : sh \in {"not_dict", "bad_fields"}}

\* What the file may hold: nothing (no file); bytes that are no UTF-8 text;
\* text that is no JSON (the empty and the cut-off file among them); JSON
\* null, a number or a boolean; a JSON string or object; a JSON list.
FileContents ==
    [kind : {"missing", "bad_utf8", "not_json", "scalar", "text_or_object"},
     items : {<<>>}]
    \cup [kind : {"list"}, items : UNION {[1..n -> FileItems] : n \in 0..MaxLen}]

RECURSIVE FileMatches(_)
FileMatches(items) ==
    IF items = <<>> THEN <<>>
    ELSE IF Head(items).shape = "match"
         THEN <<NormalizeMatch(Head(items).m)>> \o FileMatches(Tail(items))
         ELSE FileMatches(Tail(items))

\* load_cached_matches, lines 377-387, on any content.  Only
\* json.JSONDecodeError is caught: the UnicodeDecodeError of the read, the
\* TypeError of iterating over null, a number or a boolean, and whatever
\* normalize_match raises leave the function.  Iterating over a string or
\* an object yields strings, which normalize_match turns into None.
LoadFile(c) ==
    IF c.kind = "missing" THEN Returned(<<>>)
    ELSE IF c.kind = "bad_utf8" THEN Raised
    ELSE IF c.kind = "not_json" THEN Returned(<<>>)
    ELSE IF c.kind = "scalar" THEN Raised
    ELSE IF c.kind = "text_or_object" THEN Returned(<<>>)
    ELSE IF \E k \in 1..Len(c.items) : c.items[k].shape = "bad_fields" THEN Raised
    ELSE Returned(SelectSeq(FileMatches(c.items), HasGameId))

\* A request that is about to read a match file holding content c.
LoadLoc(c) == [mode |-> "load", content |-> c, loaded |-> Returned(<<>>)]

InitLoad ==
    /\ remote = <<>>
    /\ store = NoFile
    /\ status = [is_complete |-> FALSE, last_page_fetched |-> 0]
    /\ lock = Free
    /\ id_mappings = AllResolved
    /\ pc = [p \in Procs |-> IF p = 1 THEN "load" ELSE "idle"]
    /\ result = [p \in Procs |-> "none"]
    /\ \E c \in FileContents :
         loc = [p \in Procs |-> IF p = 1 THEN LoadLoc(c) ELSE IdleLoc]

\* app.py get_player_context, lines 72-77, as player_profile calls it: an
\* exception of load_cached_matches is not handled, the request fails.
GetPlayerContext(p) ==
    /\ pc[p] = "load"
    /\ LET r == LoadFile(loc[p].content) IN
       /\ loc' = [loc EXCEPT ![p].loaded = r, ![p].mode = "context"]
       /\ result' = [result EXCEPT ![p] = IF r.raised THEN "error500" ELSE "ok200"]
    /\ pc' = [pc EXCEPT ![p] = "idle"]
    /\ UNCHANGED <<remote, store, status, lock, id_mappings>>

\* refresh_matches, line 798, as refresh_player calls it (app.py 134-138):
\* an exception ends the refresh and is answered with status 500.
RefreshLoad(p) ==
    /\ pc[p] = "load"
    /\ LET r == LoadFile(loc[p].content) IN
       /\ loc' = [loc EXCEPT ![p].loaded = r, ![p].mode = "refresh"]
       /\ result' = [result EXCEPT ![p] = IF r.raised THEN "error500" ELSE "pending"]
       /\ pc' = [pc EXCEPT ![p] = IF r.raised THEN "idle" ELSE "loaded"]
    /\ UNCHANGED <<remote, store, status, lock, id_mappings>>

NextLoad == GetPlayerContext(1) \/ RefreshLoad(1)

SpecLoad == InitLoad /\ [][NextLoad]_vars

(* ------------------------------ claims -------------------------------- *)

\* C1: at most one mutating sync operation of the player is in flight at
\* any time: no two requests are in their fetch, merge or save at once.
C1_AtMostOneSyncInFlight ==
    \A p, q \in Procs :
        (/\ pc[p] \in {"fetch", "rm_merge", "save_open", "save_write"}
         /\ pc[q] \in {"fetch", "rm_merge", "save_open", "save_write"}) => p = q

\* C2: save_matches persists atomically: at every moment of a save, a
\* reader that loads the file gets what the complete old file gave or what
\* the complete new file gives.
C2_ReaderSeesOldOrNew ==
    \A p \in Procs :
        (pc[p] = "save_write" /\ loc[p].mode \in {"refresh", "webui"}) =>
            LoadCachedMatches(store) \in
                {loc[p].cached_matches,
                 LoadCachedMatches([exists |-> TRUE,
                                    items |-> loc[p].sorted_matches,
                                    complete |-> TRUE])}

\* C3: after a save_matches call, also one that follows the merge of cached
\* and newly fetched matches, the stored list holds exactly one entry for
\* every game_id of the input, and that entry is the last copy of the
\* game_id in the input (cached matches first, fetched matches after them).
C3_OneEntryPerGameId ==
    (pc[1] = "idle" /\ loc[1].mode \in {"save", "dedupe"}) =>
        LET inp == loc[1].cached_matches \o loc[1].all_new_matches
            out == store.items
        IN /\ store.complete
           /\ \A i, j \in 1..Len(out) : out[i].game_id = out[j].game_id => i = j
           /\ \A k \in 1..Len(inp) :
                Truthy(inp[k].game_id) => inp[k].game_id \in GameIds(out)
           /\ \A i \in 1..Len(out) :
                \E k \in 1..Len(inp) :
                    /\ out[i] = inp[k]
                    /\ \A n \in (k + 1)..Len(inp) : inp[n].game_id # inp[k].game_id

\* C3, its case: a save has run whose input had a game_id in the cached part
\* and, with other field values, in the fetched part.
C3_Witness ==
    /\ pc[1] = "idle" /\ loc[1].mode = "save"
    /\ \E i \in 1..Len(loc[1].cached_matches) :
       \E j \in 1..Len(loc[1].all_new_matches) :
            /\ loc[1].cached_matches[i].game_id = loc[1].all_new_matches[j].game_id
            /\ loc[1].cached_matches[i] # loc[1].all_new_matches[j]
            /\ Truthy(loc[1].cached_matches[i].game_id)

\* C4: a refresh that finds no new match, because the first record the
\* source returns is already known, writes back the stored list as it was:
\* the list it is about to dump equals the list in the file.
C4_SecondRunLeavesStoreUnchanged ==
    [][\A p \in Procs :
          (/\ pc[p] = "save_open" /\ pc'[p] = "save_write"
           /\ loc[p].mode \in {"refresh", "webui"}
           /\ loc[p].exit = "known" /\ loc[p].all_new_matches = <<>>
           /\ store.exists /\ store.complete)
          => loc'[p].sorted_matches = store.items]_vars

\* C5 as amended: after a save_matches call the stored list is ascending by
\* sort key (start time, else end time, else the minimum), and two stored
\* matches of equal key are in the order in which their game_ids first occur
\* in the input list.
C5_SortedTiesByFirstOccurrence ==
    (pc[1] = "idle" /\ loc[1].mode \in {"save", "dedupe"}) =>
        LET inp == loc[1].updated_matches
            out == store.items
            key(m) == IF m.start_datetime # Absent THEN m.start_datetime
                      ELSE IF m.end_datetime # Absent THEN m.end_datetime
                      ELSE DatetimeMin
        IN /\ \A i \in 1..(Len(out) - 1) : key(out[i]) <= key(out[i + 1])
           /\ \A i, j \in 1..Len(out) :
                (i < j /\ key(out[i]) = key(out[j])) =>
                    \E a \in 1..Len(inp) :
                        /\ inp[a].game_id = out[i].game_id
                        /\ \A b \in 1..Len(inp) :
                             inp[b].game_id = out[j].game_id => a < b

\* C5, its case: a save has run whose input named a game_id twice and whose
\* output holds two matches of equal key, one of them without a start time.
C5_Witness ==
    /\ pc[1] = "idle" /\ loc[1].mode = "save"
    /\ \E a, b \in 1..Len(loc[1].updated_matches) :
         a < b /\ loc[1].updated_matches[a].game_id = loc[1].updated_matches[b].game_id
    /\ \E i, j \in 1..Len(store.items) :
         /\ i < j
         /\ MatchSortKey(store.items[i]) = MatchSortKey(store.items[j])
         /\ store.items[i].start_datetime = Absent
         /\ store.items[j].start_datetime # Absent

\* C5 as stated: after a save_matches call the stored list is ascending by
\* sort key, and two stored matches of equal key are in the order they had
\* in the input list.
C5_SortedTiesByInputOrder ==
    (pc[1] = "idle" /\ loc[1].mode \in {"save", "dedupe"}) =>
        LET inp == loc[1].updated_matches
            out == store.items
        IN /\ \A i \in 1..(Len(out) - 1) :
                MatchSortKey(out[i]) <= MatchSortKey(out[i + 1])
           /\ \A i, j \in 1..Len(out) :
                (i < j /\ MatchSortKey(out[i]) = MatchSortKey(out[j])) =>
                    \E a, b \in 1..Len(inp) :
                        a < b /\ inp[a] = out[i] /\ inp[b] = out[j]

\* C6: a record without an id is never stored: no match of the file has the
\* game_id None or the text "None" that stands for a missing id.
C6_NoIdNeverStored ==
    \A k \in 1..Len(store.items) : store.items[k].game_id \notin {Absent, NoneStr}

\* C7: once a fetched record has a known game_id the fetch has stopped: no
\* further page is requested, the known record lies in the last page
\* received, and the result holds exactly the records received before it,
\* each once and none at or after its position.
C7_StopsAtFirstKnown ==
    \A p \in Procs :
        loc[p].reached_known =>
            LET l    == loc[p]
                n    == Len(l.received)
                last == l.received[n]
            IN /\ pc[p] # "fetch"
               /\ n = Len(l.offsets)
               /\ \E k \in 1..Len(last) :
                    LET before == {x \in (1..n) \X (1..PageSize) :
                                      /\ x[2] <= Len(l.received[x[1]])
                                      /\ (x[1] < n \/ x[2] < k)}
                        rec(x) == l.received[x[1]][x[2]]
                    IN /\ Str(last[k].id) \in l.known_ids
                       /\ \A x \in before : Str(rec(x).id) \notin l.known_ids
                       /\ GameIds(l.all_new_matches) = {Str(rec(x).id) : x \in before}
                       /\ \A a \in 1..Len(l.all_new_matches) :
                            \E x \in before : l.all_new_matches[a] = ParseNativeMatch(rec(x))
                       /\ \A a, b \in 1..Len(l.all_new_matches) :
                            l.all_new_matches[a].game_id = l.all_new_matches[b].game_id => a = b

\* C7, its case: a fetch has met a known record that is followed in its
\* page by a record of an unknown id, while the source holds records beyond
\* the pages requested.
C7_Witness ==
    \E p \in Procs :
        /\ loc[p].reached_known
        /\ Len(remote) > Len(loc[p].offsets) * PageSize
        /\ LET last == loc[p].received[Len(loc[p].received)]
           IN \E k, j \in 1..Len(last) :
                /\ k < j
                /\ Str(last[k].id) \in loc[p].known_ids
                /\ Str(last[j].id) \notin loc[p].known_ids

\* C8: the loop of fetch_new_matches requests a page only while fewer than
\* max_pages pages were requested and the time spent in the loop is below
\* the timeout.
C8_BoundedByBudgetAndTimeout ==
    [][\A p \in Procs :
          Len(loc'[p].offsets) > Len(loc[p].offsets) =>
              /\ Len(loc[p].offsets) < loc[p].max_pages
              /\ loc[p].elapsed < FetchTimeout]_vars

\* C9: when a refresh returns, the persisted is_complete is what the rule
\* gives for the way its fetch ended and the flag persisted before.
C9_RefreshPersistsIsComplete ==
    [][\A p \in Procs :
          (pc[p] = "rm_reload" /\ pc'[p] = "idle" /\ result'[p] = "success200") =>
              status'.is_complete =
                  IsCompleteRule(loc[p].exit = "end", loc[p].reached_known,
                                 status.is_complete)]_vars

\* C10: a crash during a backfill loses at most the batch in progress: every
\* match the batch loaded from the store at its start is in the store after
\* the crash.
C10_CrashLosesAtMostOneBatch ==
    [][\A p \in Procs :
          (/\ loc[p].mode = "backfill"
           /\ pc[p] \in {"fetch", "rm_merge", "save_open", "save_write", "bf_status"}
           /\ result'[p] = "crashed")
          => GameIds(loc[p].cached_matches) \subseteq GameIds(LoadCachedMatches(store'))]_vars

\* C11: load_cached_matches never raises: on a file that is not a valid
\* list of matches it returns the empty list, and the caller goes on.
C11_LoadNeverRaises ==
    \A p \in Procs :
        (pc[p] \in {"idle", "loaded"} /\ loc[p].mode \in {"context", "refresh"}
         /\ (loc[p].content.kind # "list"
             \/ \E k \in 1..Len(loc[p].content.items) :
                    loc[p].content.items[k].shape # "match"))
        => /\ ~loc[p].loaded.raised
           /\ loc[p].loaded.value = <<>>
           /\ result[p] # "error500"

\* C12: a refresh whose fetch ended on a failed request does not give the
\* reply of a refresh that reached the end of the data ("success200", the
\* only reply refresh_player has for a call that returns), and the matches
\* that were in the store before the call are in it afterwards.
C12_FailedFetchIsToldApart ==
    [][\A p \in Procs :
          (/\ pc[p] = "rm_reload" /\ pc'[p] = "idle"
           /\ loc[p].mode = "refresh" /\ loc[p].exit = "error"
           /\ result'[p] # "crashed")
          => /\ result'[p] # "success200"
             /\ GameIds(loc[p].cached_matches) \subseteq GameIds(LoadCachedMatches(store'))]_vars

C14_InvalidIdDoesNoIO ==
    \A p \in Procs :
        loc[p].player_id \notin ValidPlayerIds \cup {""} =>
            /\ pc[p] = "idle"
            /\ loc[p].mode \notin {"webui", "webui_read"}
            /\ loc[p].offsets = <<>>

C16_EloChangeDecides ==
    (pc[1] = "outcome_read" /\ loc[1].mode = "win") =>
        LET m == loc[1].members[loc[1].user_id] IN
        (m.newrating # Absent /\ m.oldrating # Absent) =>
            /\ \A t \in 1..Len(loc[1].teams) : \A k \in 1..Len(loc[1].teams[t].players) :
                 loc[1].teams[t].players[k].player_id = loc[1].user_id =>
                     (loc[1].teams[t].players[k].won <=> m.newrating - m.oldrating > 0)
            /\ loc[1].outcome.found
            /\ loc[1].outcome.win <=> (m.newrating - m.oldrating > 0)

\* C17: bucket_label puts every number of seconds from 0 on into exactly
\* one bucket: 0..299 into "< 5m", 300..899 into "5-15m", 900..1499 into
\* "15-25m", 1500..2399 into "25-40m" and 2400 and more into ">= 40m".
C17_BucketOfSeconds ==
    (pc[1] = "labelled" /\ loc[1].mode = "bucket" /\ loc[1].seconds >= 0) =>
        LET sec == loc[1].seconds IN
        loc[1].label = IF sec <= 299 THEN "< 5m"
                       ELSE IF sec <= 899 THEN "5-15m"
                       ELSE IF sec <= 1499 THEN "15-25m"
                       ELSE IF sec <= 2399 THEN "25-40m"
                       ELSE ">= 40m"

\* C17, its case: exactly 300 seconds were put into "5-15m".
C17_Witness ==
    pc[1] = "labelled" /\ loc[1].mode = "bucket" /\ loc[1].seconds = 300
    /\ loc[1].label = "5-15m"


(* --------------------------- get_relic_id ---------------------------- *)

\* id_mappings.json before the first lookup: the file does not exist and
\* load_id_mappings returns {}.
NoMappings == [m |-> [i \in SiteIds |-> Absent], complete |-> TRUE]

\* A cache test that never finds the id.
NeverInMappings(mappings, insights_id) == FALSE

\* Line 173: insights_id in mappings.
InMappings(mappings, insights_id) == mappings.m[insights_id] # Absent

\* A lookup of insights_id that has just loaded mappings (line 172).
\* requests lists the network requests made so far, to_save and loaded are
\* the arguments and the first line of save_id_mapping, relic_id is the
\* value returned.
IdLoc(insights_id, mappings) ==
    [mode |-> "id", insights_id |-> insights_id, mappings |-> mappings,
     requests |-> <<>>, to_save |-> Absent, loaded |-> mappings,
     relic_id |-> Absent]

InitId ==
    /\ remote = <<>>
    /\ store = NoFile
    /\ status = [is_complete |-> FALSE, last_page_fetched |-> 0]
    /\ lock = Free
    /\ id_mappings = NoMappings
    /\ pc = [p \in Procs |-> "idle"]
    /\ result = [p \in Procs |-> "none"]
    /\ loc = [p \in Procs |-> IdleLoc]

\* get_relic_id, lines 167-174: load the file, answer from it if it has
\* the id.
GetRelicId(p) ==
    /\ pc[p] = "idle"
    /\ \E insights_id \in SiteIds :
         /\ loc' = [loc EXCEPT ![p] =
                      IF InMappings(id_mappings, insights_id)
                      THEN [IdLoc(insights_id, id_mappings) EXCEPT
                              !.relic_id = id_mappings.m[insights_id]]
                      ELSE IdLoc(insights_id, id_mappings)]
         /\ pc' = [pc EXCEPT ![p] =
                     IF InMappings(id_mappings, insights_id)
                     THEN "id_done" ELSE "id_probe"]
    /\ UNCHANGED <<remote, store, status, lock, result, id_mappings>>

\* Lines 178-188: ask the native API for recent matches of the id taken as
\* a native id.  Anything but a 200 with matchHistoryStats, an exception
\* included, leads on to the scrape.
ProbeNative(p) ==
    /\ pc[p] = "id_probe"
    /\ \E verified \in BOOLEAN :
         /\ loc' = [loc EXCEPT ![p].requests = Append(@, "probe"),
                               ![p].to_save =
                                  IF verified THEN loc[p].insights_id ELSE Absent]
         /\ pc' = [pc EXCEPT ![p] = IF verified THEN "id_save" ELSE "id_scrape"]
    /\ UNCHANGED <<remote, store, status, lock, result, id_mappings>>

\* Lines 190-207: fetch the profile page and search it for "Game Id: <n>";
\* without it the id itself is returned and nothing is saved.
ScrapeProfile(p) ==
    /\ pc[p] = "id_scrape"
    /\ \E found \in NativeIds \cup {Absent} :
         /\ loc' = [loc EXCEPT ![p].requests = Append(@, "scrape"),
                               ![p].to_save = found,
                               ![p].relic_id =
                                  IF found = Absent THEN loc[p].insights_id ELSE @]
         /\ pc' = [pc EXCEPT ![p] = IF found = Absent THEN "id_done" ELSE "id_save"]
    /\ UNCHANGED <<remote, store, status, lock, result, id_mappings>>

\* save_id_mapping, lines 161-162: load the file and set the entry.
SaveIdLoad(p) ==
    /\ pc[p] = "id_save"
    /\ loc' = [loc EXCEPT ![p].loaded =
                 [id_mappings EXCEPT !.m[loc[p].insights_id] = loc[p].to_save]]
    /\ pc' = [pc EXCEPT ![p] = "id_write"]
    /\ UNCHANGED <<remote, store, status, lock, result, id_mappings>>

\* save_id_mapping, lines 164-165, and the return of lines 187 / 203.
SaveIdDump(p) ==
    /\ pc[p] = "id_write"
    /\ id_mappings' = loc[p].loaded
    /\ loc' = [loc EXCEPT ![p].relic_id = loc[p].to_save]
    /\ pc' = [pc EXCEPT ![p] = "id_done"]
    /\ UNCHANGED <<remote, store, status, lock, result>>

\* The caller goes on with the id returned.
IdReturn(p) ==
    /\ pc[p] = "id_done"
    /\ pc' = [pc EXCEPT ![p] = "idle"]
    /\ loc' = [loc EXCEPT ![p] = IdleLoc]
    /\ result' = [result EXCEPT ![p] = "resolved"]
    /\ UNCHANGED <<remote, store, status, lock, id_mappings>>

NextId ==
    \/ GetRelicId(1)
    \/ ProbeNative(1)
    \/ ScrapeProfile(1)
    \/ SaveIdLoad(1)
    \/ SaveIdDump(1)
    \/ IdReturn(1)

SpecId == InitId /\ [][NextId]_vars

\* Two workers look ids up at the same time: nothing in load_id_mappings,
\* save_id_mapping or get_relic_id takes a lock.
IdStep(p) ==
    \/ GetRelicId(p)
    \/ ProbeNative(p)
    \/ ScrapeProfile(p)
    \/ SaveIdLoad(p)
    \/ SaveIdDump(p)
    \/ IdReturn(p)

NextIdConc == \E p \in Procs : IdStep(p)

SpecIdConc == InitId /\ [][NextIdConc]_vars

\* A row's win_rate is the float 0.0 when it has no matches, wins / matches
\* * 100 otherwise, and no division by zero was made for it.
RateIsRight(row) ==
    /\ ~row.win_rate.raised
    /\ row.matches = 0 => row.win_rate.num = 0
    /\ row.matches # 0 =>
         row.win_rate.num * row.matches = row.wins * 100 * row.win_rate.den

\* C18: every row of the ranked breakdown, of session_metrics and of
\* nth_game_winrates has win_rate 0 when its matches count is 0 and
\* wins / matches * 100 otherwise; no row is computed with a division by zero.
C18_WinRateNeverDividesByZero ==
    (pc[1] = "analysed" /\ loc[1].mode = "metrics") =>
        /\ \A k \in 1..Len(loc[1].duration_list) : RateIsRight(loc[1].duration_list[k])
        /\ \A k \in 1..Len(loc[1].metrics.session_counts) :
              RateIsRight(loc[1].metrics.session_counts[k])
        /\ \A r \in BOOLEAN :
              /\ RateIsRight(loc[1].metrics.after_prev[r])
              /\ RateIsRight(loc[1].metrics.after_streak[r])
        /\ \A k \in 1..Len(loc[1].nth_stats) : RateIsRight(loc[1].nth_stats[k])

\* The analytics are computed, some games were played, a row with no matches
\* and a row with matches that are not all wins are both reported.
C18_Witness ==
    /\ pc[1] = "analysed"
    /\ loc[1].mode = "metrics"
    /\ loc[1].duration_list # <<>>
    /\ loc[1].metrics.after_streak[TRUE].matches = 0
    /\ loc[1].metrics.after_prev[FALSE].matches = 2
    /\ loc[1].metrics.after_prev[FALSE].wins = 1
    /\ loc[1].metrics.after_prev[FALSE].win_rate = [raised |-> FALSE, num |-> 100, den |-> 2]

\* The games of the sessions, each as <<session, position>>, counted from 1.
GamesOf(sessions) ==
    {g \in (1..Len(sessions)) \X (1..MaxGames + 1) : g[2] <= Len(sessions[g[1]])}

WonGames(sessions, games) == {g \in games : sessions[g[1]][g[2]]}

\* The games whose predecessor in the same session had result r, and those
\* whose two predecessors in the same session both had result r.
AfterResult(sessions, r) ==
    {g \in GamesOf(sessions) : g[2] >= 2 /\ sessions[g[1]][g[2] - 1] = r}

AfterTwo(sessions, r) ==
    {g \in GamesOf(sessions) :
        g[2] >= 3 /\ sessions[g[1]][g[2] - 1] = r /\ sessions[g[1]][g[2] - 2] = r}

AtPosition(sessions, k) == {g \in GamesOf(sessions) : g[2] = k}

\* C19: session_metrics counts in after_prev[r] the games whose immediate
\* predecessor in the same session had result r, and in after_streak[r] the
\* games whose two immediate predecessors in the same session both had
\* result r; the first game of a session has no predecessor from another
\* session.  nth_game_winrates counts the k-th game of every session under
\* position k, counted from 1.
C19_PredecessorsWithinSession ==
    (pc[1] = "analysed" /\ loc[1].mode = "metrics") =>
        LET sessions == loc[1].sessions
            metrics  == loc[1].metrics
            nth      == loc[1].nth_stats
        IN /\ \A r \in BOOLEAN :
                /\ metrics.after_prev[r].matches = Cardinality(AfterResult(sessions, r))
                /\ metrics.after_prev[r].wins =
                     Cardinality(WonGames(sessions, AfterResult(sessions, r)))
                /\ metrics.after_streak[r].matches = Cardinality(AfterTwo(sessions, r))
                /\ metrics.after_streak[r].wins =
                     Cardinality(WonGames(sessions, AfterTwo(sessions, r)))
           /\ \A k \in 1..MaxGames + 1 :
                /\ AtPosition(sessions, k) # {} <=>
                     \E j \in 1..Len(nth) : nth[j].key = k
                /\ \A j \in 1..Len(nth) :
                     nth[j].key = k =>
                       /\ nth[j].matches = Cardinality(AtPosition(sessions, k))
                       /\ nth[j].wins =
                            Cardinality(WonGames(sessions, AtPosition(sessions, k)))
           /\ \A i, j \in 1..Len(nth) : nth[i].key = nth[j].key => i = j

\* Two sessions were analysed: the first ends with two wins, the second has
\* three games, so that its first two games follow those wins in time but
\* have no streak behind them.
C19_Witness ==
    /\ pc[1] = "analysed"
    /\ loc[1].mode = "metrics"
    /\ Len(loc[1].sessions) = 2
    /\ loc[1].sessions[1] = <<TRUE, TRUE>>
    /\ loc[1].sessions[2] = <<FALSE, FALSE, TRUE>>
    /\ loc[1].metrics.after_streak[TRUE].matches = 0
    /\ loc[1].metrics.after_streak[FALSE].matches = 1
    /\ loc[1].metrics.after_prev[TRUE].matches = 1
    /\ Len(loc[1].nth_stats) = 3


\* C20: get_relic_id tries the mapping file first, then the probe in the
\* native id space, then the scrape of the profile page.  An id once
\* resolved is on file when the lookup returns and its entry never changes;
\* a later lookup of it returns the entry without a network request.  A
\* lookup whose probe and scrape both fail leaves the file as it was.
C20_CacheThenProbeThenScrape ==
    [][ /\ \A i \in SiteIds :
             id_mappings.m[i] # Absent => id_mappings'.m[i] = id_mappings.m[i]
        /\ (pc[1] = "idle" /\ pc'[1] # "idle" /\ loc'[1].mode = "id") =>
             LET i == loc'[1].insights_id IN
             IF id_mappings.m[i] # Absent
             THEN /\ pc'[1] = "id_done"
                  /\ loc'[1].relic_id = id_mappings.m[i]
                  /\ loc'[1].requests = <<>>
             ELSE pc'[1] = "id_probe" /\ loc'[1].requests = <<>>
        /\ (pc[1] # "id_done" /\ pc'[1] = "id_done" /\ loc'[1].mode = "id") =>
             LET l == loc'[1]
                 i == l.insights_id
             IN /\ l.requests \in {<<>>, <<"probe">>, <<"probe", "scrape">>}
                /\ l.requests = <<>> <=> l.mappings.m[i] # Absent
                /\ l.requests = <<"probe">> =>
                     l.relic_id = i /\ id_mappings'.m[i] = i
                /\ l.requests = <<"probe", "scrape">> =>
                     \/ /\ l.to_save # Absent
                        /\ l.relic_id = l.to_save
                        /\ id_mappings'.m[i] = l.to_save
                     \/ /\ l.to_save = Absent
                        /\ l.relic_id = i
                        /\ id_mappings' = l.mappings
                /\ \A j \in SiteIds \ {i} : id_mappings'.m[j] = l.mappings.m[j]
      ]_vars

\* A lookup has just been answered from the file, with no request, by an
\* entry that an earlier lookup found on the profile page.
C20_Witness ==
    /\ pc[1] = "id_done"
    /\ loc[1].mode = "id"
    /\ loc[1].insights_id = 1
    /\ loc[1].requests = <<>>
    /\ loc[1].relic_id = 3
    /\ id_mappings.m[1] = 3
    /\ id_mappings.m[2] = Absent


\* C21: the requests of one call of fetch_new_matches are for the offsets
\* 0, PageSize, 2 * PageSize, ... in this order, none twice and none left
\* out; a store file that has been written to its end is in ascending order
\* of the sort key, in whatever order its matches were fetched.
C21_PagesInOrderStoredAscending ==
    /\ \A p \in Procs :
          \A k \in 1..Len(loc[p].offsets) : loc[p].offsets[k] = (k - 1) * PageSize
    /\ (store.exists /\ store.complete) =>
          \A i, j \in 1..Len(store.items) :
             i < j => MatchSortKey(store.items[i]) <= MatchSortKey(store.items[j])

\* A refresh has requested two pages, fetched a later match before an
\* earlier one, and saved both.
C21_Witness ==
    /\ pc[1] = "rm_reload"
    /\ loc[1].offsets = <<0, PageSize>>
    /\ store.complete
    /\ Len(store.items) >= 2
    /\ \E a, b \in 1..Len(loc[1].all_new_matches) :
          /\ a < b
          /\ MatchSortKey(loc[1].all_new_matches[a]) > MatchSortKey(loc[1].all_new_matches[b])
          /\ \E i, j \in 1..Len(store.items) :
                /\ i < j
                /\ store.items[i].game_id = loc[1].all_new_matches[b].game_id
                /\ store.items[j].game_id = loc[1].all_new_matches[a].game_id


C23_StoredIdsOnlyGrow ==
    \A p, q \in Procs :
        (/\ pc[p] = "rm_reload"
         /\ store.complete
         /\ loc[q].mode \in {"refresh", "webui"}) =>
            GameIds(loc[q].cached_matches) \subseteq GameIds(store.items)


\* C24: the mapping file loses no entry when two save_id_mapping calls for
\* different site ids interleave: once both calls have returned, the file
\* holds the entry of each.
C24_BothMappingsOnFile ==
    \A p, q \in Procs :
        (/\ pc[p] = "id_done" /\ loc[p].mode = "id" /\ loc[p].to_save # Absent
         /\ pc[q] = "id_done" /\ loc[q].mode = "id" /\ loc[q].to_save # Absent
         /\ loc[p].insights_id # loc[q].insights_id) =>
            /\ id_mappings.m[loc[p].insights_id] = loc[p].to_save
            /\ id_mappings.m[loc[q].insights_id] = loc[q].to_save


\* The place of entry i of the input in the input sorted ascending by start
\* time with entries of equal start time left in their order.
StableRank(prepared, i) ==
    1 + Cardinality({j \in 1..Len(prepared) :
                        \/ prepared[j].ts < prepared[i].ts
                        \/ (prepared[j].ts = prepared[i].ts /\ j < i)})

\* C25: group_sessions returns a partition of its input: no session is
\* empty, the sessions laid end to end are the input sorted ascending by
\* start time with entries of equal start time in their input order, and
\* there is no session exactly when the input is empty.
C25_SessionsPartitionInput ==
    (pc[1] = "grouped" /\ loc[1].mode = "sessions") =>
        LET sessions == loc[1].sessions
            prepared == loc[1].prepared
            walk     == Concat(sessions)
        IN /\ \A n \in 1..Len(sessions) : sessions[n] # <<>>
           /\ Len(walk) = Len(prepared)
           /\ \A i \in 1..Len(prepared) : walk[StableRank(prepared, i)] = prepared[i]
           /\ (sessions = <<>>) <=> (prepared = <<>>)

\* Entries were grouped into more than one session; two of them start at
\* the same time, differ, and were handed over after an entry that starts
\* later.
C25_Witness ==
    /\ pc[1] = "grouped"
    /\ loc[1].mode = "sessions"
    /\ Len(loc[1].sessions) >= 2
    /\ LET prepared == loc[1].prepared IN
       \E i, j \in 2..Len(prepared) :
          /\ i < j
          /\ prepared[i].ts = prepared[j].ts
          /\ prepared[i] # prepared[j]
          /\ prepared[1].ts > prepared[i].ts

====
